---- MODULE Spec2Model ----
(***************************************************************************)
(* RewriteConstRaises (numba/rewrites/static_raise.py): the rewrite that   *)
(* turns `raise <constant exception>` into `static_raise(type, args)`.     *)
(*                                                                         *)
(* Two specifications:                                                     *)
(*   SpecBC  applies _break_constant to one constant drawn from a bounded  *)
(*           universe of Python constants;                                 *)
(*   Spec    runs match / apply of one rewriter object over the blocks of  *)
(*           one function IR.                                              *)
(***************************************************************************)
EXTENDS Integers, Sequences, FiniteSets, TLC

(* ---------------------------- bounds ----------------------------------- *)
\* longest instruction list of the function IR that is split into blocks
MaxLen == 3
\* number of blocks the heap may hold (two input blocks + apply's results)
MaxBlocks == 3
\* longest constructor-argument sequence of a constant
MaxArgs == 2

(* ----------------------- Python constant values ------------------------ *)
\* every constant is a record of one shape: tag, name, items
TypeC(n) == [tag |-> "type", name |-> n, items |-> <<>>]
InstanceC(n) == [tag |-> "instance", name |-> n, items |-> <<>>]
IntC(n) == [tag |-> "int", name |-> n, items |-> <<>>]
StrC(n) == [tag |-> "str", name |-> n, items |-> <<>>]
TupleC(s) == [tag |-> "tuple", name |-> "", items |-> s]
ListC(s) == [tag |-> "list", name |-> "", items |-> s]
NoneC == [tag |-> "None", name |-> "None", items |-> <<>>]

\* the class hierarchy: each class and its base (object is its own base)
ClassBase ==
  [c \in {"object", "int", "BaseException", "KeyboardInterrupt", "Exception",
          "ValueError", "MyError"} |->
     CASE c = "object" -> "object"
       [] c = "int" -> "object"
       [] c = "BaseException" -> "object"
       [] c = "KeyboardInterrupt" -> "BaseException"
       [] c = "Exception" -> "BaseException"
       [] c = "ValueError" -> "Exception"
       [] c = "MyError" -> "ValueError"]

RECURSIVE issubclass(_, _)
issubclass(c, base) ==
  IF c = base THEN TRUE
  ELSE IF ClassBase[c] = c THEN FALSE
  ELSE issubclass(ClassBase[c], base)

isinstance_type(const) == const.tag = "type"

\* _is_exception_type: isinstance(const, type) and issubclass(const, Exception)
is_exception_type(const) ==
  isinstance_type(const) /\ issubclass(const.name, "Exception")

(* ------------------------- _break_constant ----------------------------- *)
\* the outcome of a call: a returned pair, or the exception it raised
Returned(t, a) ==
  [status |-> "return", exc_type |-> t, exc_args |-> a, value |-> NoneC]
Raised(kind, v) ==
  [status |-> kind, exc_type |-> NoneC, exc_args |-> NoneC, value |-> v]

\* tuple(x): a new tuple of the items of an iterable, built item by item
RECURSIVE tuple_items(_)
tuple_items(s) ==
  IF s = <<>> THEN <<>> ELSE <<Head(s)>> \o tuple_items(Tail(s))

is_iterable(x) == x.tag \in {"tuple", "list"}

\* mutant: the argument sequence is rebuilt in reverse order
RECURSIVE tuple_items_Reversed(_)
tuple_items_Reversed(s) ==
  IF s = <<>> THEN <<>> ELSE tuple_items_Reversed(Tail(s)) \o <<Head(s)>>

\* mutant: the arguments come back reversed
break_constant_RevArgs(const) ==
  IF const.tag = "tuple"
  THEN IF Len(const.items) < 1 THEN Raised("IndexError", const)
       ELSE IF ~ is_exception_type(const.items[1])
       THEN Raised("NotImplementedError", const.items[1])
       ELSE IF Len(const.items) < 2 THEN Raised("IndexError", const)
       ELSE IF ~ is_iterable(const.items[2]) THEN Raised("TypeError", const)
       ELSE Returned(const.items[1],
                     TupleC(tuple_items_Reversed(const.items[2].items)))
  ELSE IF is_exception_type(const) THEN Returned(const, NoneC)
  ELSE Raised("NotImplementedError", const)

\* _break_constant(const)
break_constant(const) ==
  IF const.tag = "tuple"
  THEN \* const[0] of an empty tuple raises IndexError
       IF Len(const.items) < 1 THEN Raised("IndexError", const)
       ELSE IF ~ is_exception_type(const.items[1])
       THEN Raised("NotImplementedError", const.items[1])
       \* const[1] of a one-element tuple raises IndexError
       ELSE IF Len(const.items) < 2 THEN Raised("IndexError", const)
       \* tuple(const[1]) of a non-iterable raises TypeError
       ELSE IF ~ is_iterable(const.items[2]) THEN Raised("TypeError", const)
       ELSE Returned(const.items[1], TupleC(tuple_items(const.items[2].items)))
  ELSE IF is_exception_type(const) THEN Returned(const, NoneC)
  ELSE Raised("NotImplementedError", const)


(* --------------------------- instructions ------------------------------ *)
\* an ir statement: its identity (id), its class (kind), the operand of a
\* Raise / TryRaise (exception, "None" when absent), the payload of a
\* StaticRaise / StaticTryRaise (exc_class, exc_args) and its loc
Inst(i, k, e, l) ==
  [id |-> i, kind |-> k, exception |-> e, exc_class |-> NoneC,
   exc_args |-> NoneC, loc |-> l]

\* ir.StaticRaise(exc_type, exc_args, loc) / ir.StaticTryRaise(...)
StaticInst(i, k, t, a, l) ==
  [id |-> i, kind |-> k, exception |-> "None", exc_class |-> t,
   exc_args |-> a, loc |-> l]

\* the statements of the function under compilation, in source order; 5 and
\* 6 are two distinct objects that compare equal field by field
PoolSeq ==
  << Inst(1, "Raise", "x", 11),
     Inst(2, "TryRaise", "y", 12),
     Inst(3, "Raise", "None", 13),
     Inst(4, "TryRaise", "None", 14),
     Inst(5, "Assign", "None", 15),
     Inst(6, "Assign", "None", 15) >>

Range(f) == {f[i] : i \in DOMAIN f}

InstPool == Range(PoolSeq)

Operands == {"x", "y"}

\* what the definition site of an operand may be
NotConstant == [tag |-> "NotConstant", name |-> "", items |-> <<>>]
OracleConsts ==
  { TypeC("ValueError"),
    TupleC(<<TypeC("MyError"), TupleC(<<StrC("bad"), StrC("worse")>>)>>),
    IntC("5"),
    TupleC(<<>>),
    NotConstant }

\* the function IRs tried: x resolves to any of these, y to a bare exception
\* type, to a constant that is no exception, or to nothing
FuncIRs ==
  {f \in [Operands -> OracleConsts] :
     f["y"] \in {TypeC("ValueError"), IntC("5"), NotConstant}}

\* func_ir.infer_constant(name): the constant, or ConstantInferenceError
infer_constant(fir, name) ==
  IF fir[name] = NotConstant
  THEN Raised("ConstantInferenceError", NotConstant)
  ELSE Returned(fir[name], NoneC)

(* ------------------------------ blocks --------------------------------- *)
\* the heap of Block objects: blocks[b] is the body of block b
IsRaiseLike(inst) == inst.kind \in {"Raise", "TryRaise"}

\* block.find_insts((ir.Raise, ir.TryRaise)), in body order
find_insts(body) == SelectSeq(body, IsRaiseLike)

\* block.copy(): a new Block object with its own copy of the body
Block_copy(heap, b) == Append(heap, heap[b])
\* block.clear()
Block_clear(heap, b) == [heap EXCEPT ![b] = <<>>]
\* block.append(inst)
Block_append(heap, b, inst) == [heap EXCEPT ![b] = Append(@, inst)]

(* ------------------------------- match --------------------------------- *)
EmptyDict == [i \in {} |-> [exc_type |-> NoneC, exc_args |-> NoneC]]

\* d[inst] = (exc_type, exc_args)
DictSet(d, inst, t, a) ==
  [i \in DOMAIN d \cup {inst} |->
     IF i = inst THEN [exc_type |-> t, exc_args |-> a] ELSE d[i]]

MatchState(r, t, st, c) ==
  [raises |-> r, tryraises |-> t, status |-> st, calls |-> c]

\* mutant: an operand that is not constant is skipped, the scan goes on
RECURSIVE match_loop_SkipNotConstant(_, _, _)
match_loop_SkipNotConstant(fir, insts, acc) ==
  IF insts = <<>> THEN acc
  ELSE
    LET inst == Head(insts)
        inferred == IF inst.exception = "None" THEN Returned(NoneC, NoneC)
                    ELSE infer_constant(fir, inst.exception)
        calls == IF inst.exception = "None" THEN acc.calls
                 ELSE Append(acc.calls, inst.exception)
        broken == IF inst.exception = "None" THEN Returned(NoneC, NoneC)
                  ELSE IF inferred.status # "return" THEN inferred
                  ELSE break_constant(inferred.exc_type)
    IN IF broken.status = "ConstantInferenceError"
       THEN match_loop_SkipNotConstant(fir, Tail(insts),
              MatchState(acc.raises, acc.tryraises, "return", calls))
       ELSE IF broken.status # "return"
       THEN MatchState(acc.raises, acc.tryraises, broken.status, calls)
       ELSE IF inst.kind = "Raise"
       THEN match_loop_SkipNotConstant(fir, Tail(insts),
              MatchState(DictSet(acc.raises, inst, broken.exc_type,
                                 broken.exc_args),
                         acc.tryraises, "return", calls))
       ELSE IF inst.kind = "TryRaise"
       THEN match_loop_SkipNotConstant(fir, Tail(insts),
              MatchState(acc.raises,
                         DictSet(acc.tryraises, inst, broken.exc_type,
                                 broken.exc_args),
                         "return", calls))
       ELSE MatchState(acc.raises, acc.tryraises, "ValueError", calls)

\* mutant: a re-raise is skipped instead of recorded
RECURSIVE match_loop_SkipReraise(_, _, _)
match_loop_SkipReraise(fir, insts, acc) ==
  IF insts = <<>> THEN acc
  ELSE
    LET inst == Head(insts)
        inferred == IF inst.exception = "None" THEN Returned(NoneC, NoneC)
                    ELSE infer_constant(fir, inst.exception)
        calls == IF inst.exception = "None" THEN acc.calls
                 ELSE Append(acc.calls, inst.exception)
        broken == IF inst.exception = "None" THEN Returned(NoneC, NoneC)
                  ELSE IF inferred.status # "return" THEN inferred
                  ELSE break_constant(inferred.exc_type)
    IN IF inst.exception = "None"
       THEN match_loop_SkipReraise(fir, Tail(insts), acc)
       ELSE IF broken.status # "return"
       THEN MatchState(acc.raises, acc.tryraises, broken.status, calls)
       ELSE IF inst.kind = "Raise"
       THEN match_loop_SkipReraise(fir, Tail(insts),
              MatchState(DictSet(acc.raises, inst, broken.exc_type,
                                 broken.exc_args),
                         acc.tryraises, "return", calls))
       ELSE IF inst.kind = "TryRaise"
       THEN match_loop_SkipReraise(fir, Tail(insts),
              MatchState(acc.raises,
                         DictSet(acc.tryraises, inst, broken.exc_type,
                                 broken.exc_args),
                         "return", calls))
       ELSE MatchState(acc.raises, acc.tryraises, "ValueError", calls)

\* the body of the for loop, for the raise-like statements still to scan
RECURSIVE match_loop(_, _, _)
match_loop(fir, insts, acc) ==
  IF insts = <<>> THEN acc
  ELSE
    LET inst == Head(insts)
        inferred == IF inst.exception = "None" THEN Returned(NoneC, NoneC)
                    ELSE infer_constant(fir, inst.exception)
        calls == IF inst.exception = "None" THEN acc.calls
                 ELSE Append(acc.calls, inst.exception)
        broken == IF inst.exception = "None" THEN Returned(NoneC, NoneC)
                  ELSE IF inferred.status # "return" THEN inferred
                  ELSE break_constant(inferred.exc_type)
    IN IF broken.status # "return"
       THEN MatchState(acc.raises, acc.tryraises, broken.status, calls)
       ELSE IF inst.kind = "Raise"
       THEN match_loop(fir, Tail(insts),
              MatchState(DictSet(acc.raises, inst, broken.exc_type,
                                 broken.exc_args),
                         acc.tryraises, "return", calls))
       ELSE IF inst.kind = "TryRaise"
       THEN match_loop(fir, Tail(insts),
              MatchState(acc.raises,
                         DictSet(acc.tryraises, inst, broken.exc_type,
                                 broken.exc_args),
                         "return", calls))
       ELSE MatchState(acc.raises, acc.tryraises, "ValueError", calls)

\* the rewriter's own fields that match and apply use
Self(r, t) == [raises |-> r, tryraises |-> t]

\* mutant: the dictionaries of the previous call are kept and added to
match_Accumulate(self, fir, body) ==
  match_loop(fir, find_insts(body),
             MatchState(self.raises, self.tryraises, "return", <<>>))

\* match(self, func_ir, block, typemap, calltypes): the dictionaries it
\* leaves in self, how it ended, and the operands it had func_ir resolve
match(self, fir, body) ==
  match_loop(fir, find_insts(body),
             MatchState(EmptyDict, EmptyDict, "return", <<>>))

\* return (len(raises) + len(tryraises)) > 0
match_result(r, t) == Cardinality(DOMAIN r) + Cardinality(DOMAIN t) > 0

(* ------------------------------- apply --------------------------------- *)
\* the identity of the i-th statement created for the new block nb
NewId(nb, i) == nb * (MaxLen + 1) + i

\* mutant: the two static classes are exchanged
RECURSIVE apply_loop_SwapKinds(_, _, _, _, _, _)
apply_loop_SwapKinds(heap, sb, nb, r, t, i) ==
  IF i > Len(heap[sb]) THEN heap
  ELSE
    LET inst == heap[sb][i]
        new_inst ==
          IF inst \in DOMAIN r
          THEN StaticInst(NewId(nb, i), "StaticTryRaise", r[inst].exc_type,
                          r[inst].exc_args, inst.loc)
          ELSE IF inst \in DOMAIN t
          THEN StaticInst(NewId(nb, i), "StaticRaise", t[inst].exc_type,
                          t[inst].exc_args, inst.loc)
          ELSE inst
    IN apply_loop_SwapKinds(Block_append(heap, nb, new_inst), sb, nb, r, t, i + 1)

\* mutant: the branch for self.tryraises is missing
RECURSIVE apply_loop_KeepTryRaise(_, _, _, _, _, _)
apply_loop_KeepTryRaise(heap, sb, nb, r, t, i) ==
  IF i > Len(heap[sb]) THEN heap
  ELSE
    LET inst == heap[sb][i]
        new_inst ==
          IF inst \in DOMAIN r
          THEN StaticInst(NewId(nb, i), "StaticRaise", r[inst].exc_type,
                          r[inst].exc_args, inst.loc)
          ELSE inst
    IN apply_loop_KeepTryRaise(Block_append(heap, nb, new_inst), sb, nb, r, t, i + 1)

\* the for loop over self.block.body, from its i-th statement on
RECURSIVE apply_loop(_, _, _, _, _, _)
apply_loop(heap, sb, nb, r, t, i) ==
  IF i > Len(heap[sb]) THEN heap
  ELSE
    LET inst == heap[sb][i]
        new_inst ==
          IF inst \in DOMAIN r
          THEN StaticInst(NewId(nb, i), "StaticRaise", r[inst].exc_type,
                          r[inst].exc_args, inst.loc)
          ELSE IF inst \in DOMAIN t
          THEN StaticInst(NewId(nb, i), "StaticTryRaise", t[inst].exc_type,
                          t[inst].exc_args, inst.loc)
          ELSE inst
    IN apply_loop(Block_append(heap, nb, new_inst), sb, nb, r, t, i + 1)

\* mutant: new_block is self.block itself, not a copy of it
apply_NoCopy(heap, sb, r, t) ==
  apply_loop(Block_clear(heap, sb), sb, sb, r, t, 1)

\* apply(): the heap after the call; the block returned is the last one
apply(heap, sb, r, t) ==
  LET copied == Block_copy(heap, sb)
      nb == Len(copied)
  IN apply_loop(Block_clear(copied, nb), sb, nb, r, t, 1)

(* --------------------------- state machine ----------------------------- *)
VARIABLES
  func_ir,     \* the function IR: what each operand resolves to
  blocks,      \* the heap of blocks
  origin,      \* origin[b]: 0 for a block of the function IR, else the
               \* block apply copied it from, and whether match had succeeded
  self_block,  \* self.block (0: not set yet)
  raises,      \* self.raises
  tryraises,   \* self.tryraises
  matched,     \* the most recent match call: its block and how it ended
  last,        \* the most recent call and what it returned
  const,       \* SpecBC: the constant given to _break_constant
  broken       \* SpecBC: the outcome of _break_constant(const)

vars == <<func_ir, blocks, origin, self_block, raises, tryraises, matched,
          last, const, broken>>

NoCall == [op |-> "none", block |-> 0, status |-> "none", ret |-> FALSE,
           calls |-> <<>>]

\* sequences without repetition over S, of length n
RECURSIVE InjSeqs(_, _)
InjSeqs(S, n) ==
  IF n = 0 THEN {<<>>}
  ELSE {Append(s, x) : s \in InjSeqs(S, n - 1), x \in S} \ 
       {s \in {Append(s, x) : s \in InjSeqs(S, n - 1), x \in S} :
          \E i \in 1..(n - 1) : s[i] = s[n]}

Bodies == UNION {InjSeqs(InstPool, n) : n \in 0..MaxLen}

\* the second block of the function: the statements the first block does not
\* hold, in source order, as many as a block may hold
RestOf(body) ==
  LET NotInBody(inst) == inst \notin Range(body)
      rest == SelectSeq(PoolSeq, NotInBody)
  IN SubSeq(rest, 1, IF Len(rest) < MaxLen THEN Len(rest) ELSE MaxLen)

Init ==
  /\ func_ir \in FuncIRs
  /\ \E body \in Bodies : blocks = <<body, RestOf(body)>>
  /\ origin = <<[src |-> 0, ok |-> FALSE], [src |-> 0, ok |-> FALSE]>>
  /\ self_block = 0
  /\ raises = EmptyDict
  /\ tryraises = EmptyDict
  /\ matched = [block |-> 0, status |-> "none"]
  /\ last = NoCall
  /\ const = NoneC
  /\ broken = Raised("none", NoneC)

\* the driver calls match(func_ir, block, ...) on block b
Match(b) ==
  LET m == match(Self(raises, tryraises), func_ir, blocks[b])
  IN /\ self_block' = b
     /\ raises' = m.raises
     /\ tryraises' = m.tryraises
     /\ matched' = [block |-> b, status |-> m.status]
     /\ last' = [op |-> "match", block |-> b, status |-> m.status,
                 ret |-> IF m.status = "return"
                         THEN match_result(m.raises, m.tryraises)
                         ELSE FALSE,
                 calls |-> m.calls]
     /\ UNCHANGED <<func_ir, blocks, origin, const, broken>>

\* the driver calls apply()
Apply ==
  /\ self_block # 0
  /\ Len(blocks) < MaxBlocks
  /\ blocks' = apply(blocks, self_block, raises, tryraises)
  /\ origin' = Append(origin, [src |-> self_block, ok |-> matched.status = "return"])
  /\ last' = [op |-> "apply", block |-> Len(blocks) + 1, status |-> "return",
              ret |-> FALSE, calls |-> <<>>]
  /\ UNCHANGED <<func_ir, self_block, raises, tryraises, matched, const,
                 broken>>

Next ==
  \/ \E b \in 1..Len(blocks) : Match(b)
  \/ Apply

Spec == Init /\ [][Next]_vars


(* ------------------- the classifier on its own: SpecBC ----------------- *)
RECURSIVE SeqsUpTo(_, _)
SeqsUpTo(S, n) ==
  IF n = 0 THEN {<<>>}
  ELSE SeqsUpTo(S, n - 1) \cup
       {Append(s, x) : s \in {q \in SeqsUpTo(S, n - 1) : Len(q) = n - 1},
                       x \in S}

Atoms ==
  {TypeC(c) : c \in DOMAIN ClassBase} \cup
  {InstanceC("ValueError"), IntC("5"), StrC("a"), NoneC}

ArgSeqs == SeqsUpTo({StrC("a"), StrC("b")}, MaxArgs)

\* what may stand in second place of a tuple constant
Seconds ==
  {TupleC(a) : a \in ArgSeqs} \cup {ListC(a) : a \in ArgSeqs} \cup {IntC("5")}

ConstUniverse ==
  Atoms \cup {ListC(a) : a \in ArgSeqs} \cup {TupleC(<<>>)} \cup
  {TupleC(<<a>>) : a \in Atoms} \cup
  {TupleC(<<a, b>>) : a \in Atoms, b \in Seconds} \cup
  {TupleC(<<a, b, IntC("7")>>) : a \in Atoms, b \in Seconds}

InitBC ==
  /\ const \in ConstUniverse
  /\ broken = Raised("none", NoneC)
  /\ func_ir = [o \in Operands |-> NotConstant]
  /\ blocks = <<>>
  /\ origin = <<>>
  /\ self_block = 0
  /\ raises = EmptyDict
  /\ tryraises = EmptyDict
  /\ matched = [block |-> 0, status |-> "none"]
  /\ last = NoCall

\* self._break_constant(const) is called
BreakConstant ==
  /\ broken.status = "none"
  /\ broken' = break_constant(const)
  /\ UNCHANGED <<func_ir, blocks, origin, self_block, raises, tryraises,
                 matched, last, const>>

NextBC == BreakConstant

SpecBC == InitBC /\ [][NextBC]_vars

(* ------------------------ reference notions ---------------------------- *)
\* the exception types of the hierarchy, listed
ExceptionTypeNames == {"Exception", "ValueError", "MyError"}
IsExceptionTypeRef(c) == c.tag = "type" /\ c.name \in ExceptionTypeNames

\* a two-element aggregate whose first element is an exception type
IsTypeArgsPairRef(c) ==
  c.tag = "tuple" /\ Len(c.items) = 2 /\ IsExceptionTypeRef(c.items[1])

\* an ordered sequence of constants
IsSequenceRef(c) == c.tag \in {"tuple", "list"}

(* ------------------------------ C4, C5 --------------------------------- *)
\* C4: every constant that is neither an exception type nor a two-element
\* aggregate whose first element is an exception type makes the classifier
\* fail with the "unsupported exception constant" error (NotImplementedError)
\* carrying the offending value; it never returns a pair for such a constant
\* and never fails with another kind of error.
C4_UnsupportedAlwaysRejected ==
  (broken.status # "none" /\ ~ IsExceptionTypeRef(const)
     /\ ~ IsTypeArgsPairRef(const))
  => /\ broken.status = "NotImplementedError"
     /\ \/ broken.value = const
        \/ const.tag = "tuple" /\ Len(const.items) > 0
             /\ broken.value = const.items[1]

\* C5: a constant that is itself an exception type T yields (T, None); a
\* two-element aggregate (T, args) with T an exception type and args an
\* ordered sequence yields (T, tuple of the same arguments in the same order
\* and number).
C5_SupportedDecomposition ==
  broken.status # "none" =>
    /\ IsExceptionTypeRef(const) => broken = Returned(const, NoneC)
    /\ (IsTypeArgsPairRef(const) /\ IsSequenceRef(const.items[2])) =>
         /\ broken.status = "return"
         /\ broken.exc_type = const.items[1]
         /\ broken.exc_args.tag = "tuple"
         /\ Len(broken.exc_args.items) = Len(const.items[2].items)
         /\ \A i \in 1..Len(const.items[2].items) :
              broken.exc_args.items[i] = const.items[2].items[i]

C5_Witness ==
  /\ broken.status = "return"
  /\ IsTypeArgsPairRef(const)
  /\ Len(const.items[2].items) = 2
  /\ const.items[2].items[1] # const.items[2].items[2]
  /\ broken.exc_args.items = const.items[2].items


(* --------------------------- C1 .. C3, C6 .. C10 ----------------------- *)
\* the block self.block refers to, and the block the last apply returned
SrcBody == blocks[self_block]
OutBody == blocks[last.block]
NonRaise(inst) == ~ IsRaiseLike(inst)
Recorded == DOMAIN raises \cup DOMAIN tryraises
HasOperand(inst) == inst.exception # "None"
AfterMatch == last.op = "match"
AfterApply == last.op = "apply"
MatchSucceeded == matched.status = "return"

IsStaticOf(new, kind, entry, inst) ==
  /\ new.kind = kind
  /\ new.exc_class = entry.exc_type
  /\ new.exc_args = entry.exc_args
  /\ new.loc = inst.loc

\* C1: after a successful match, the block apply returns has the length of
\* the original and is its pointwise substitution: a recorded Raise becomes a
\* StaticRaise, a recorded TryRaise a StaticTryRaise, each with the recorded
\* (type, args) and the original loc; any other statement is the very same
\* statement; so the other statements keep their relative order.
C1_ApplyIsPointwiseSubstitution ==
  (AfterApply /\ MatchSucceeded) =>
    /\ Len(OutBody) = Len(SrcBody)
    /\ \A i \in 1..Len(SrcBody) :
         IF SrcBody[i] \in DOMAIN raises
         THEN IsStaticOf(OutBody[i], "StaticRaise", raises[SrcBody[i]],
                         SrcBody[i])
         ELSE IF SrcBody[i] \in DOMAIN tryraises
         THEN IsStaticOf(OutBody[i], "StaticTryRaise", tryraises[SrcBody[i]],
                         SrcBody[i])
         ELSE OutBody[i] = SrcBody[i]
    /\ LET Kept(inst) == NonRaise(inst) /\ inst \in Range(SrcBody)
       IN SelectSeq(OutBody, Kept) = SelectSeq(SrcBody, NonRaise)

C1_Witness ==
  /\ AfterApply /\ MatchSucceeded
  /\ Len(SrcBody) = 3
  /\ \E i, j, k \in 1..3 :
       /\ SrcBody[i] \in DOMAIN raises /\ OutBody[i].kind = "StaticRaise"
       /\ SrcBody[j] \in DOMAIN tryraises
       /\ OutBody[j].kind = "StaticTryRaise"
       /\ NonRaise(SrcBody[k]) /\ OutBody[k] = SrcBody[k]

\* C2: when match returns, the keys of self.raises are exactly the Raise
\* statements of the block and the keys of self.tryraises exactly its TryRaise
\* statements, and the value returned is true exactly when there is such a
\* statement; apply then leaves no Raise or TryRaise in the block it returns.
C2_MatchRecordsAllRaises ==
  /\ (AfterMatch /\ last.status = "return") =>
       /\ DOMAIN raises = {x \in Range(SrcBody) : x.kind = "Raise"}
       /\ DOMAIN tryraises = {x \in Range(SrcBody) : x.kind = "TryRaise"}
       /\ last.ret = (\E x \in Range(SrcBody) : IsRaiseLike(x))
       /\ last.ret = (Cardinality(DOMAIN raises)
                        + Cardinality(DOMAIN tryraises) # 0)
  /\ (AfterApply /\ MatchSucceeded) =>
       \A x \in Range(OutBody) : ~ IsRaiseLike(x)

C2_Witness ==
  /\ AfterMatch /\ last.status = "return" /\ last.ret
  /\ DOMAIN raises # {} /\ DOMAIN tryraises # {}
  /\ \E x \in Recorded : HasOperand(x)

\* the block has a raise-like statement, and every one it has carries an
\* operand that func_ir cannot resolve
OnlyNonConstantRaises(body) ==
  /\ \E x \in Range(body) : IsRaiseLike(x)
  /\ \A x \in Range(body) :
       IsRaiseLike(x) => HasOperand(x) /\ func_ir[x.exception] = NotConstant

\* C3 as stated: a block whose only raise-like statements have operands that
\* cannot be resolved makes match return false ("not applicable").
C3_NonConstantReportsNotApplicable ==
  (AfterMatch /\ OnlyNonConstantRaises(SrcBody)) =>
    (last.status = "return" /\ last.ret = FALSE)

\* C3 amended: on such a block match does not return: it fails with the
\* oracle's "not constant" error at the first raise-like statement, after one
\* oracle call and with both dictionaries empty; a block without any
\* raise-like statement makes match return false.
C3_NonConstantPropagates ==
  /\ (AfterMatch /\ OnlyNonConstantRaises(SrcBody)) =>
       /\ last.status = "ConstantInferenceError"
       /\ Recorded = {}
       /\ Len(last.calls) = 1
  /\ (AfterMatch /\ \A x \in Range(SrcBody) : NonRaise(x)) =>
       (last.status = "return" /\ last.ret = FALSE)

C3_Witness ==
  /\ AfterMatch /\ OnlyNonConstantRaises(SrcBody)
  /\ Cardinality({x \in Range(SrcBody) : IsRaiseLike(x)}) = 2
  /\ last.status = "ConstantInferenceError"

\* C6: no call changes the body of a block that already exists, whether match
\* succeeded or failed; the block apply returns is a new one.
C6_OriginalBlockNeverMutated ==
  [][/\ Len(blocks') >= Len(blocks)
     /\ \A b \in 1..Len(blocks) : blocks'[b] = blocks[b]
     /\ last'.op = "apply" => /\ last'.block = Len(blocks) + 1
                              /\ Len(blocks') = Len(blocks) + 1]_vars

C6_Witness ==
  /\ AfterApply
  /\ matched.status \notin {"none", "return"}
  /\ Recorded # {}
  /\ OutBody # SrcBody

\* C7: after any sequence of match calls, every key of self.raises and
\* self.tryraises is a statement of the block most recently passed to match,
\* self.block is that block, and apply rewrites that block, replacing only
\* statements recorded for it.
C7_NoAccumulationAcrossBlocks ==
  /\ matched.block # 0 =>
       /\ self_block = matched.block
       /\ Recorded \subseteq Range(blocks[matched.block])
  /\ AfterApply =>
       /\ origin[last.block].src = matched.block
       /\ Len(OutBody) = Len(blocks[matched.block])
       /\ \A i \in 1..Len(OutBody) :
            \/ OutBody[i] = blocks[matched.block][i]
            \/ blocks[matched.block][i] \in Recorded

\* a match on one block has been followed by a match on another block that
\* shares no raise with it
C7_Witness ==
  /\ AfterMatch
  /\ Recorded # {}
  /\ \E b \in 1..Len(blocks) :
       /\ b # matched.block
       /\ \E x \in Range(blocks[b]) : IsRaiseLike(x) /\ x \notin Recorded
       /\ origin[b].src = 0

\* C8: a raise-like statement without operand is recorded as (None, None) and
\* costs no oracle call; a block with a raise-like statement, all of them
\* without operand, makes match return true whatever func_ir holds; apply
\* turns a recorded operand-less TryRaise into StaticTryRaise(None, None, loc)
\* and a recorded operand-less Raise into StaticRaise(None, None, loc).
C8_ReraiseNeedsNoOracle ==
  /\ AfterMatch =>
       /\ \A x \in DOMAIN raises :
            ~ HasOperand(x) => raises[x] = [exc_type |-> NoneC,
                                            exc_args |-> NoneC]
       /\ \A x \in DOMAIN tryraises :
            ~ HasOperand(x) => tryraises[x] = [exc_type |-> NoneC,
                                               exc_args |-> NoneC]
       /\ Len(last.calls) <=
            Len(SelectSeq(find_insts(SrcBody), HasOperand))
       /\ (/\ \E x \in Range(SrcBody) : IsRaiseLike(x)
           /\ \A x \in Range(SrcBody) : IsRaiseLike(x) => ~ HasOperand(x))
          => /\ last.status = "return" /\ last.ret = TRUE
             /\ last.calls = <<>>
             /\ {x \in Range(SrcBody) : IsRaiseLike(x)} = Recorded
  /\ AfterApply =>
       \A i \in 1..Len(SrcBody) :
         (SrcBody[i] \in Recorded /\ ~ HasOperand(SrcBody[i])) =>
           /\ OutBody[i].kind = IF SrcBody[i].kind = "TryRaise"
                                THEN "StaticTryRaise" ELSE "StaticRaise"
           /\ OutBody[i].exc_class = NoneC
           /\ OutBody[i].exc_args = NoneC
           /\ OutBody[i].loc = SrcBody[i].loc

C8_Witness ==
  /\ AfterApply /\ MatchSucceeded
  /\ \A o \in Operands : func_ir[o] = NotConstant
  /\ \E i, j \in 1..Len(SrcBody) :
       /\ SrcBody[i].kind = "TryRaise" /\ ~ HasOperand(SrcBody[i])
       /\ OutBody[i].kind = "StaticTryRaise" /\ OutBody[i].exc_class = NoneC
       /\ SrcBody[j].kind = "Raise" /\ ~ HasOperand(SrcBody[j])
       /\ OutBody[j].kind = "StaticRaise"

\* the raise-like statements of the block in order, and which of them fail
ScannedInsts == find_insts(SrcBody)
OracleFails(inst) == HasOperand(inst) /\ func_ir[inst.exception] = NotConstant
ClassifierRejects(inst) ==
  /\ HasOperand(inst)
  /\ func_ir[inst.exception] # NotConstant
  /\ ~ IsExceptionTypeRef(func_ir[inst.exception])
  /\ ~ (IsTypeArgsPairRef(func_ir[inst.exception])
          /\ IsSequenceRef(func_ir[inst.exception].items[2]))
FailsAt(k) == OracleFails(ScannedInsts[k]) \/ ClassifierRejects(ScannedInsts[k])
IsFirstFailure(k) ==
  /\ k \in 1..Len(ScannedInsts)
  /\ FailsAt(k)
  /\ \A j \in 1..(k - 1) : ~ FailsAt(j)
OperandsOf(insts) ==
  LET withOp == SelectSeq(insts, HasOperand)
  IN [i \in 1..Len(withOp) |-> withOp[i].exception]

\* C9: match aborts at the first raise-like statement, in block order, whose
\* operand cannot be resolved or whose constant the classifier rejects: it
\* fails with ConstantInferenceError ("not constant") in the first case and
\* with NotImplementedError ("unsupported exception constant") in the second,
\* returns nothing, resolves no later operand, and leaves recorded exactly the
\* raise-like statements before that one.
C9_AbortOnFirstFailure ==
  AfterMatch =>
    \A k \in 1..Len(ScannedInsts) :
      IsFirstFailure(k) =>
        /\ last.status = IF OracleFails(ScannedInsts[k])
                         THEN "ConstantInferenceError"
                         ELSE "NotImplementedError"
        /\ last.ret = FALSE
        /\ last.calls = OperandsOf(SubSeq(ScannedInsts, 1, k))
        /\ Recorded = {ScannedInsts[j] : j \in 1..(k - 1)}

\* C10: a block returned by apply after a successful match holds no Raise and
\* no TryRaise, and match on it records nothing, asks the oracle nothing and
\* returns false.
C10_OneStepFixpoint ==
  /\ \A b \in 1..Len(blocks) :
       origin[b].ok => \A x \in Range(blocks[b]) : ~ IsRaiseLike(x)
  /\ (AfterMatch /\ origin[last.block].ok) =>
       /\ last.status = "return" /\ last.ret = FALSE
       /\ Recorded = {}
       /\ last.calls = <<>>

C10_Witness ==
  /\ AfterMatch /\ origin[last.block].ok
  /\ last.ret = FALSE
  /\ \E x, y \in Range(blocks[origin[last.block].src]) :
       x.kind = "Raise" /\ y.kind = "TryRaise"
  /\ \E x, y \in Range(blocks[last.block]) :
       x.kind = "StaticRaise" /\ y.kind = "StaticTryRaise"

====
